---- MODULE Spec2Model ----
(***************************************************************************)
(* Verification model of the GeM bid downloader:                           *)
(*   gem_downloader/incremental/gem_incremental.py  (watermark crawler)    *)
(*   gem_downloader/latest/gem_latest.py            (manifest fetcher)     *)
(***************************************************************************)
EXTENDS Integers, Sequences, FiniteSets, TLC

(***************************************************************************)
(* Bounds of the model.                                                    *)
(***************************************************************************)
MaxBid == 2
MaxEpoch == 2
MaxPages == 2

Bids == 1..MaxBid
Epochs == 0..MaxEpoch

\* Optional[int] of extract_bid_start_epoch: None is represented by -1,
\* real epochs of the model are the naturals 0..MaxEpoch.
None == 0 - 1

VARIABLES
  \* ---- gem_incremental: persistent and per-run program state ----
  stateFile,        \* STATE_FILE: [exists, last_seen_epoch, seen_bid_ids]
  inc_pc,           \* position of main(): idle / paging / loop / saved / aborted
  last_seen_epoch,  \* main: last_seen_epoch (watermark loaded at run start)
  seen_ids,         \* main: seen_ids
  todo,             \* main: the not yet visited part of dict.fromkeys(all_ids)
  newest_epoch,     \* main: newest_epoch
  files,            \* DOWNLOAD_DIR: ids b with a file bid_<b>.pdf
  \* ---- gem_incremental: the portal and the history of the runs ----
  upstream,         \* the portal's listing and bid pages, when they are fixed
  dl_before,        \* bids download_bid_pdf was called for in earlier runs
  dl_run,           \* bids download_bid_pdf was called for in the current run
  elig,             \* bids not seen at run start whose page, as served in
                    \*   this run, has a start above the loaded watermark
  max_passed,       \* largest start among the pages served in this run that
                    \*   pass the watermark test and all three filters
  state0,           \* STATE_FILE as it was when the current run started
  prev_done,        \* the run before the current one completed (saved)
  abort_at,         \* where the current run was aborted by an exception
  listed,           \* bids of all_ids in the current run
  dl_false_run,     \* bids download_bid_pdf returned False for in this run
  dl_false_done     \* bids download_bid_pdf returned False for in an earlier
                    \*   run that completed (reached save_state)

incVars == <<stateFile, inc_pc, last_seen_epoch, seen_ids, todo, newest_epoch,
             files, upstream, dl_before, dl_run, elig, max_passed,
             state0, prev_done, abort_at, listed, dl_false_run,
             dl_false_done>>

VARIABLES
  \* ---- bid_doc_url on one record ----
  rt_doc,           \* the listing record
  rt_out,           \* the result of bid_doc_url, once it has been called
  \* ---- download_file / download_bid_pdf on one response ----
  dl_resp,          \* the response of the download request
  dl_out,           \* what download_file returned and wrote
  bid_pdf_out       \* what download_bid_pdf returned and wrote

routeVars == <<rt_doc, rt_out>>
dlVars == <<dl_resp, dl_out, bid_pdf_out>>

VARIABLES
  \* ---- gem_latest.main ----
  lat_pc,           \* position of main(): start / paging / docs / write /
                    \*   done / aborted
  all_bids_html,    \* the /all-bids page of line 428
  csrf,             \* main: csrf
  download_pdf,     \* args.download_pdf
  lat_page,         \* main: page
  docs,             \* main: the not yet visited docs of the current page
  results,          \* main: results
  out_file,         \* args.out: [writes, items]
  pdf_files,        \* pdf_dir: the paths <base>.pdf that exist
  html_files,       \* pdf_dir: the paths <base>.html that exist
  debug_html,       \* pdf_dir/debug_html/docpage_no_pdf_link.html: the
                    \*   b_id of the bid whose page it holds
  scanned_total,    \* main: scanned_total
  requests,         \* number of calls of fetch_docs in this run
  failed_at,        \* the call of fetch_docs that got an error status or
                    \*   no docs (0: none yet)
  lat_abort,        \* what aborted the run
  lat_last,         \* the last record main visited: its b_id, how its
                    \*   visit ended, whether download_file was called
                    \*   and what it returned
  diag_log          \* the diagnostics written in this run: the b_id of the
                    \*   bid and what wrote it (resolve / download)

latVars == <<lat_pc, all_bids_html, csrf, download_pdf, lat_page, docs,
             results, out_file, pdf_files, html_files, debug_html,
             scanned_total, requests, failed_at, lat_abort, lat_last,
             diag_log>>

VARIABLES
  \* ---- one call of a function of the two programs ----
  call,             \* the function and its arguments
  ret               \* what the call returned, once it has been made

callVars == <<call, ret>>

vars == <<incVars, routeVars, dlVars, latVars, callVars>>

(***************************************************************************)
(* Helpers: Python built-ins used by the code.                             *)
(***************************************************************************)
SetMax(S) == CHOOSE x \in S : \A y \in S : y <= x
SetMin(S) == CHOOSE x \in S : \A y \in S : x <= y

\* a slip of line 189: newest_epoch = start_epoch
Max_last(a, b) == b

\* max(a, b)
Max(a, b) == IF a >= b THEN a ELSE b

\* sorted(S, key=int)
RECURSIVE SortAsc(_)
SortAsc(S) == IF S = {} THEN <<>>
              ELSE <<SetMin(S)>> \o SortAsc(S \ {SetMin(S)})

\* sorted(S, key=int, reverse=True)
RECURSIVE SortDesc(_)
SortDesc(S) == IF S = {} THEN <<>>
               ELSE <<SetMax(S)>> \o SortDesc(S \ {SetMax(S)})

\* set(list)
Range(s) == {s[i] : i \in 1..Len(s)}

\* list(dict.fromkeys(s)): first occurrences, in order
RECURSIVE Dedup(_)
Dedup(s) == IF s = <<>> THEN <<>>
            ELSE LET r == Dedup(SubSeq(s, 1, Len(s) - 1))
                     x == s[Len(s)]
                 IN IF x \in Range(r) THEN r ELSE Append(r, x)

(***************************************************************************)
(* JSON values of the listing records and Python strings.                  *)
(* A value is None, an int, a str (a sequence of characters) or a list; an *)
(* absent key of a record is the value Absent.                             *)
(***************************************************************************)
Absent == [tag |-> "absent", int |-> 0, str |-> <<>>, items |-> <<>>]
NoneV == [tag |-> "none", int |-> 0, str |-> <<>>, items |-> <<>>]
IntV(n) == [tag |-> "int", int |-> n, str |-> <<>>, items |-> <<>>]
StrV(s) == [tag |-> "str", int |-> 0, str |-> s, items |-> <<>>]
ListV(l) == [tag |-> "list", int |-> 0, str |-> <<>>, items |-> l]

\* dict.get(key): None for an absent key
Get(v) == IF v.tag = "absent" THEN NoneV ELSE v
\* dict.get(key, 0)
GetOr0(v) == IF v.tag = "absent" THEN IntV(0) ELSE v

\* truth value of a Python value (the `or` of line 190)
Truthy(v) ==
  CASE v.tag = "int" -> v.int # 0
    [] v.tag = "str" -> v.str # <<>>
    [] v.tag = "list" -> v.items # <<>>
    [] OTHER -> FALSE

DigitChars == <<"0", "1", "2", "3", "4", "5", "6", "7", "8", "9">>
Digits == Range(DigitChars)

\* str(n) of an int
RECURSIVE NatStr(_)
NatStr(n) == IF n < 10 THEN <<DigitChars[n + 1]>>
             ELSE NatStr(n \div 10) \o <<DigitChars[(n % 10) + 1]>>
Str(n) == IF n < 0 THEN <<"-">> \o NatStr(0 - n) ELSE NatStr(n)

\* str.strip(chars)
RECURSIVE LStrip(_, _)
LStrip(s, chars) ==
  IF s # <<>> /\ Head(s) \in chars THEN LStrip(Tail(s), chars) ELSE s
RECURSIVE RStrip(_, _)
RStrip(s, chars) ==
  IF s # <<>> /\ s[Len(s)] \in chars
    THEN RStrip(SubSeq(s, 1, Len(s) - 1), chars) ELSE s
Strip(s, chars) == RStrip(LStrip(s, chars), chars)

Whitespace == {" ", "\t", "\r", "\n"}
IdStripChars == {"[", "]", "(", ")", "{", "}", " ", "\t", "\r", "\n", "\"", "'"}

\* re.search(r"\d+", s): the first maximal run of digits, <<>> for no match
RECURSIVE DigitPrefix(_)
DigitPrefix(s) ==
  IF s # <<>> /\ Head(s) \in Digits
    THEN <<Head(s)>> \o DigitPrefix(Tail(s)) ELSE <<>>
RECURSIVE FirstDigitRun(_)
FirstDigitRun(s) ==
  IF s = <<>> THEN <<>>
  ELSE IF Head(s) \in Digits THEN DigitPrefix(s)
  ELSE FirstDigitRun(Tail(s))

(***************************************************************************)
(* gem_latest.py: pure functions                                           *)
(***************************************************************************)
BASE_URL == "https://bidplus.gem.gov.in"

\* normalize_id (floats are not modelled)
RECURSIVE normalize_id(_)
normalize_id(value) ==
  CASE value.tag \in {"none", "absent"} -> <<>>
    [] value.tag = "int" -> Str(value.int)
    [] value.tag = "list" ->
         IF value.items = <<>> THEN <<>> ELSE normalize_id(value.items[1])
    [] value.tag = "str" ->
         FirstDigitRun(Strip(Strip(value.str, Whitespace), IdStripChars))

\* A URL f"{BASE_URL}/{doc_lbl}/{b_id}"; the empty string is NoUrl
Url(lbl, id) == [base |-> BASE_URL, lbl |-> lbl, id |-> id]
NoUrl == [base |-> "", lbl |-> "", id |-> <<>>]

\* line 190, (b_eval_type or 0) > 0: Python raises TypeError when the left
\* side is a non-empty str or list
eval_raises(b_eval_type) ==
  Truthy(b_eval_type) /\ b_eval_type.tag # "int"
eval_positive(b_eval_type) ==
  b_eval_type.tag = "int" /\ b_eval_type.int > 0

\* a slip of line 190: ">= 0" for "> 0"
doc_label_ge(b_bid_type, b_eval_type) ==
  IF b_bid_type = IntV(5) THEN "showdirectradocumentPdf"
  ELSE IF b_bid_type = IntV(2)
    THEN IF ~Truthy(b_eval_type) \/ b_eval_type.int >= 0
           THEN "list-ra-schedules" ELSE "showradocumentPdf"
  ELSE "showbidDocument"

\* bid_doc_url, lines 185-191: the route segment
doc_label(b_bid_type, b_eval_type) ==
  IF b_bid_type = IntV(5) THEN "showdirectradocumentPdf"
  ELSE IF b_bid_type = IntV(2)
    THEN IF eval_positive(b_eval_type)
           THEN "list-ra-schedules" ELSE "showradocumentPdf"
  ELSE "showbidDocument"

\* bid_doc_url: [raises |-> TypeError raised, url |-> the result]
bid_doc_url(doc) ==
  LET b_id == normalize_id(Get(doc.b_id))
      b_bid_type == Get(doc.b_bid_type)
      b_eval_type == GetOr0(doc.b_eval_type)
  IN IF b_bid_type = IntV(2) /\ eval_raises(b_eval_type)
       THEN [raises |-> TRUE, url |-> NoUrl]
       ELSE [raises |-> FALSE,
             url |-> IF b_id # <<>>
                       THEN Url(doc_label(b_bid_type, b_eval_type), b_id)
                       ELSE NoUrl]

(***************************************************************************)
(* gem_incremental.py                                                      *)
(***************************************************************************)
max_pages == MaxPages

\* load_state: the persisted state, or the default when STATE_FILE is absent;
\* dflt is int(time.time()) - default_hours_ago * 3600.
load_state(dflt) ==
  IF stateFile.exists
    THEN [last_seen_epoch |-> stateFile.last_seen_epoch,
          seen_bid_ids |-> stateFile.seen_bid_ids]
    ELSE [last_seen_epoch |-> dflt, seen_bid_ids |-> <<>>]

\* a slip of lines 192-193: the state dict is written back as it was loaded
save_state_as_loaded(ids, epoch) ==
  [exists |-> TRUE, last_seen_epoch |-> last_seen_epoch,
   seen_bid_ids |-> state0.seen_bid_ids]

\* save_state, with the state dict as main builds it (lines 192-194)
save_state(ids, epoch) ==
  [exists |-> TRUE, last_seen_epoch |-> epoch, seen_bid_ids |-> SortAsc(ids)]

\* extract_bid_ids: the ids found in the listing html, newest (largest) first
extract_bid_ids(found) == SortDesc(found)

\* the three filters of main (lines 178-183) on their three verdicts
passes_filters(kw, cat, st) == kw /\ cat /\ st

\* download_bid_pdf (lines 106-118) on a delivered response: the file is
\* written and True returned iff status 200 and "pdf" in the content type
download_bid_pdf(status200, ctype_pdf) == status200 /\ ctype_pdf

\* What the pagination loop (lines 146-157) is served: n pages with ids,
\* then the loop ends because max_pages is reached ("limit"), or request
\* n+1 raises ("exception"), has a status other than 200 ("non200") or is a
\* page in which extract_bid_ids finds nothing ("empty").
IdPages == (SUBSET Bids) \ {{}}
ListingOutcomes ==
  UNION {[pages : [1..n -> IdPages],
          end : IF n = max_pages THEN {"limit"}
                ELSE {"exception", "non200", "empty"}] : n \in 0..max_pages}

\* Outcomes of the bid view request (line 165) and what main extracts from
\* the page: start = extract_bid_start_epoch(html); kw, cat, st = verdicts of
\* matches_keyword / matches_category / matches_state on the page and args.
ViewOutcomes ==
  {[kind |-> k, start |-> None, kw |-> FALSE, cat |-> FALSE, st |-> FALSE] :
      k \in {"exception", "non200"}}
  \cup [kind : {"ok"}, start : {None} \cup Epochs,
        kw : BOOLEAN, cat : BOOLEAN, st : BOOLEAN]

\* Outcomes of the request of download_bid_pdf (line 110)
DlOutcomes ==
  {[kind |-> "exception", status200 |-> FALSE, ctype_pdf |-> FALSE]}
  \cup [kind : {"response"}, status200 : BOOLEAN, ctype_pdf : BOOLEAN]

\* a slip of line 171: "<" for "<="
too_old_strict(start_epoch) ==
  start_epoch = None \/ start_epoch = 0 \/ start_epoch < last_seen_epoch

\* the test of line 171 on the extracted start
too_old(start_epoch) ==
  start_epoch = None \/ start_epoch = 0 \/ start_epoch <= last_seen_epoch

\* A bid page as the portal serves it: its status, its start and whether
\* its text passes the three filters of the run's arguments (which is of no
\* consequence for a page without a start: line 171 skips it before).
NoPage == [kind |-> "non200", start |-> None, match |-> FALSE]
BidPages == {NoPage}
            \cup [kind : {"ok"}, start : {None, 0}, match : {FALSE}]
            \cup [kind : {"ok"}, start : Epochs \ {0}, match : BOOLEAN]
PageOf(view) ==
  [kind |-> view.kind, start |-> view.start,
   match |-> view.start # None /\ view.start # 0
             /\ passes_filters(view.kw, view.cat, view.st)]

\* The portal. A free portal answers every request arbitrarily. A pinned
\* portal answers the requests of every run from the same listing pages
\* (each bid on one page, an empty page after the last one) and the same
\* page for each bid; a request can still raise.
FreePortal == [pinned |-> FALSE, pages |-> <<>>,
               view |-> [b \in Bids |-> NoPage]]
PinnedListings ==
  {l \in UNION {[1..n -> IdPages] : n \in 0..max_pages} :
     \A i \in 1..Len(l), j \in 1..Len(l) : i # j => l[i] \cap l[j] = {}}
PinnedPortals ==
  {u \in [pinned : {TRUE}, pages : PinnedListings,
          view : [Bids -> BidPages]] :
     \A b \in Bids \ UNION Range(u.pages) : u.view[b] = NoPage}

\* lines 152-156: all_ids, the concatenation of the ids of the pages
RECURSIVE Concat(_)
Concat(pages) ==
  IF pages = <<>> THEN <<>>
  ELSE Concat(SubSeq(pages, 1, Len(pages) - 1))
         \o extract_bid_ids(pages[Len(pages)])

\* the answers the portal allows to the listing requests / for bid b's page
PinnedAnswers ==
  {[pages |-> upstream.pages,
    end |-> IF Len(upstream.pages) = max_pages THEN "limit" ELSE "empty"]}
  \cup {[pages |-> SubSeq(upstream.pages, 1, n), end |-> "exception"] :
          n \in {k \in 0..Len(upstream.pages) : k < max_pages}}
ListingAllowed ==
  IF upstream.pinned THEN PinnedAnswers ELSE ListingOutcomes
ViewAllowed(view, b) ==
  upstream.pinned /\ view.kind # "exception" => PageOf(view) = upstream.view[b]

\* a slip of main: the failing request is caught and the run goes on
uncaught_swallowed(pc) == pc

\* main has no try/except: an exception raised by session.get (lines 148,
\* 165, 110) ends the run where it stands
uncaught(pc) == "aborted"

\* a slip of lines 186-188: the bid is marked seen only after a download
mark_seen_if_ok(ids, bid_id, ok) == IF ok THEN ids \cup {bid_id} ELSE ids

\* lines 186-188: the result of download_bid_pdf is dropped and the bid is
\* added to seen_ids
mark_seen(ids, bid_id, ok) == ids \cup {bid_id}

\* main, lines 135-144: load the state
StartRun ==
  /\ UNCHANGED <<routeVars, dlVars, latVars, callVars>>
  /\ inc_pc \in {"idle", "saved", "aborted"}
  /\ \E dflt \in Epochs :
       LET state == load_state(dflt) IN
         /\ last_seen_epoch' = state.last_seen_epoch
         /\ seen_ids' = Range(state.seen_bid_ids)
  /\ todo' = <<>>
  /\ newest_epoch' = None
  /\ dl_run' = {}
  /\ elig' = {}
  /\ max_passed' = None
  /\ abort_at' = "none"
  /\ dl_before' = dl_before \cup dl_run
  /\ state0' = stateFile
  /\ prev_done' = (inc_pc = "saved")
  /\ listed' = {}
  /\ dl_false_run' = {}
  /\ dl_false_done' = IF inc_pc = "saved" THEN dl_false_done \cup dl_false_run
                       ELSE dl_false_done
  /\ inc_pc' = "paging"
  /\ UNCHANGED <<stateFile, files, upstream>>

\* main, lines 146-161: the pagination loop, newest_epoch = last_seen_epoch
\* and the iteration order dict.fromkeys(all_ids) of the bid loop
FetchListing ==
  /\ UNCHANGED <<routeVars, dlVars, latVars, callVars>>
  /\ inc_pc = "paging"
  /\ \E resp \in ListingAllowed :
       /\ IF resp.end = "exception"
            THEN /\ inc_pc' = uncaught(inc_pc)
                 /\ abort_at' = "paging"
                 /\ UNCHANGED <<todo, newest_epoch, listed>>
            ELSE LET all_ids == Concat(resp.pages) IN
                 /\ newest_epoch' = last_seen_epoch
                 /\ todo' = Dedup(all_ids)
                 /\ listed' = Range(all_ids)
                 /\ inc_pc' = "loop"
                 /\ UNCHANGED abort_at
  /\ UNCHANGED <<stateFile, last_seen_epoch, seen_ids, files, upstream,
                 dl_before, dl_run, elig, max_passed, state0, prev_done,
                 dl_false_run, dl_false_done>>

\* main, lines 162-172 and 178-183: the bid is skipped (continue)
skips(bid_id, view) ==
  \/ bid_id \in seen_ids
  \/ view.kind = "non200"
  \/ too_old(view.start)
  \/ ~passes_filters(view.kw, view.cat, view.st)

\* what the page served for bid_id says, whatever main does with it
Eligible(bid_id, view) ==
  /\ view.kind = "ok"
  /\ view.start # None
  /\ view.start > last_seen_epoch
  /\ bid_id \notin Range(state0.seen_bid_ids)
PassedMax(view) ==
  IF view.kind = "ok" /\ view.start # None /\ view.start > last_seen_epoch
     /\ view.kw /\ view.cat /\ view.st /\ view.start > max_passed
    THEN view.start ELSE max_passed

\* main, lines 161-190: one iteration of the bid loop
ProcessBid ==
  /\ UNCHANGED <<routeVars, dlVars, latVars, callVars>>
  /\ inc_pc = "loop"
  /\ todo # <<>>
  /\ LET bid_id == Head(todo) IN
       IF bid_id \in seen_ids
         THEN /\ todo' = Tail(todo)
              /\ UNCHANGED <<inc_pc, seen_ids, newest_epoch, files,
                             dl_run, elig, max_passed, abort_at,
                             dl_false_run>>
         ELSE \E view \in ViewOutcomes :
           /\ ViewAllowed(view, bid_id)
           /\ elig' = IF Eligible(bid_id, view) THEN elig \cup {bid_id}
                      ELSE elig
           /\ max_passed' = PassedMax(view)
           /\ IF view.kind = "exception"
                THEN /\ inc_pc' = uncaught(inc_pc)
                     /\ abort_at' = "view"
                     /\ UNCHANGED <<todo, seen_ids, newest_epoch, files,
                                    dl_run, dl_false_run>>
              ELSE IF skips(bid_id, view)
                THEN /\ todo' = Tail(todo)
                     /\ UNCHANGED <<inc_pc, seen_ids, newest_epoch, files,
                                    dl_run, abort_at, dl_false_run>>
              ELSE \E dl \in DlOutcomes :
                /\ dl_run' = dl_run \cup {bid_id}
                /\ IF dl.kind = "exception"
                     THEN /\ inc_pc' = uncaught(inc_pc)
                          /\ abort_at' = "download"
                          /\ UNCHANGED <<todo, seen_ids, newest_epoch, files,
                                         dl_false_run>>
                     ELSE LET ok == download_bid_pdf(dl.status200,
                                                     dl.ctype_pdf) IN
                          /\ files' = IF ok THEN files \cup {bid_id}
                                      ELSE files
                          /\ dl_false_run' = IF ok THEN dl_false_run
                                             ELSE dl_false_run \cup {bid_id}
                          /\ seen_ids' = mark_seen(seen_ids, bid_id, ok)
                          /\ newest_epoch' = Max(newest_epoch, view.start)
                          /\ todo' = Tail(todo)
                          /\ UNCHANGED <<inc_pc, abort_at>>
  /\ UNCHANGED <<stateFile, last_seen_epoch, upstream, dl_before, state0,
                 prev_done, listed, dl_false_done>>

\* main, lines 192-194: the final save_state
SaveState ==
  /\ UNCHANGED <<routeVars, dlVars, latVars, callVars>>
  /\ inc_pc = "loop"
  /\ todo = <<>>
  /\ stateFile' = save_state(seen_ids, newest_epoch)
  /\ inc_pc' = "saved"
  /\ UNCHANGED <<last_seen_epoch, seen_ids, todo, newest_epoch, files,
                 upstream, dl_before, dl_run, elig, max_passed, state0,
                 prev_done, abort_at, listed, dl_false_run, dl_false_done>>

NoStateFile == [exists |-> FALSE, last_seen_epoch |-> 0, seen_bid_ids |-> <<>>]

\* Before the first run: no STATE_FILE, an empty DOWNLOAD_DIR
IncInit ==
  /\ stateFile = NoStateFile
  /\ inc_pc = "idle"
  /\ last_seen_epoch = 0
  /\ seen_ids = {}
  /\ todo = <<>>
  /\ newest_epoch = None
  /\ files = {}
  /\ dl_before = {}
  /\ dl_run = {}
  /\ elig = {}
  /\ max_passed = None
  /\ state0 = NoStateFile
  /\ prev_done = FALSE
  /\ abort_at = "none"
  /\ listed = {}
  /\ dl_false_run = {}
  /\ dl_false_done = {}

IncNext == StartRun \/ FetchListing \/ ProcessBid \/ SaveState

(***************************************************************************)
(* gem_latest.py: download_file                                            *)
(***************************************************************************)
MaxTail == 3
\* stands for the 2_000_000 of line 348
DebugReadMax == 1

Min(a, b) == IF a <= b THEN a ELSE b
Take(s, n) == SubSeq(s, 1, Min(n, Len(s)))
Drop(s, n) == SubSeq(s, Min(n, Len(s)) + 1, Len(s))

Magic == <<"%", "P", "D", "F", "-">>

\* Content-Type headers; "" is the absent header (line 338: `or ""`)
ContentTypes == {"", "text/html", "application/octet-stream",
                 "application/pdf", "Application/PDF"}
lower(ctype) == IF ctype = "Application/PDF" THEN "application/pdf" ELSE ctype
\* "pdf" in ctype
has_pdf(ctype) == ctype = "application/pdf"

\* requests.Response.raise_for_status
raise_for_status(status) == status >= 400 /\ status < 600

\* a file: absent, or its bytes
NoFile == [exists |-> FALSE, data |-> <<>>]
File(data) == [exists |-> TRUE, data |-> data]

\* A response to a download request: session.get raises (raises), or
\* status, content type and body; cut = NoCut, or the number of body bytes
\* that arrive before the connection breaks.
NoCut == 0 - 1
Bodies ==
  {SubSeq(Magic, 1, k) \o t :
     k \in 0..5, t \in UNION {[1..n -> {"<", "%"}] : n \in 0..MaxTail}}
Responses ==
  {r \in [raises : BOOLEAN, status : {200, 404, 503},
          ctype : ContentTypes, body : Bodies,
          cut : {NoCut} \cup 0..(5 + MaxTail)] :
     /\ r.cut <= Len(r.body)
     /\ r.raises => /\ r.status = 200 /\ r.ctype = "" /\ r.body = <<>>
                    /\ r.cut = NoCut}

\* a slip of line 345: only "%PDF" is compared
magic_ok_4(peek) == Take(peek, 4) = Take(Magic, 4)

\* line 345
magic_ok(peek) == peek = Magic

\* download_file (lines 336-370):
\*   [ok |-> the result, dest |-> out_path, diag |-> out_path.with_suffix(".html")]
\* An exception of session.get, of raise_for_status or while the body is
\* read is caught at line 368; a body that breaks off has been written to
\* out_path up to where it broke, and to the diagnostic path only when the
\* one read of line 348 was complete.
download_file(r) ==
  LET failed == [ok |-> FALSE, dest |-> NoFile, diag |-> NoFile]
      broken == r.cut # NoCut
      avail == IF broken THEN Take(r.body, r.cut) ELSE r.body
      peek == Take(avail, 5)
  IN IF r.raises \/ raise_for_status(r.status) THEN failed
     ELSE IF ~has_pdf(lower(r.ctype))
       THEN IF broken /\ Len(avail) < 5 THEN failed
            ELSE IF ~magic_ok(peek)
              THEN IF broken /\ r.cut < 5 + DebugReadMax THEN failed
                   ELSE [ok |-> FALSE, dest |-> NoFile,
                         diag |-> File(peek \o Take(Drop(r.body, 5),
                                                    DebugReadMax))]
            ELSE IF broken
              THEN [ok |-> FALSE, dest |-> File(avail), diag |-> NoFile]
            ELSE [ok |-> TRUE, dest |-> File(peek \o Drop(r.body, 5)),
                  diag |-> NoFile]
     ELSE IF broken
       THEN [ok |-> FALSE, dest |-> File(avail), diag |-> NoFile]
     ELSE [ok |-> TRUE, dest |-> File(r.body), diag |-> NoFile]

\* download_bid_pdf of gem_incremental on the same kind of response:
\* r.content is the whole body, an exception is not caught
bid_pdf(r) ==
  IF r.raises \/ r.cut # NoCut
    THEN [raised |-> TRUE, ok |-> FALSE, dest |-> NoFile]
  ELSE IF download_bid_pdf(r.status = 200, has_pdf(lower(r.ctype)))
    THEN [raised |-> FALSE, ok |-> TRUE, dest |-> File(r.body)]
  ELSE [raised |-> FALSE, ok |-> FALSE, dest |-> NoFile]

NotCalled == [called |-> FALSE, ok |-> FALSE, raised |-> FALSE,
              dest |-> NoFile, diag |-> NoFile]

DownloadFile ==
  /\ UNCHANGED <<incVars, routeVars, latVars, callVars>>
  /\ ~dl_out.called
  /\ LET out == download_file(dl_resp) IN
       dl_out' = [called |-> TRUE, ok |-> out.ok, raised |-> FALSE,
                  dest |-> out.dest, diag |-> out.diag]
  /\ UNCHANGED <<dl_resp, bid_pdf_out>>

DownloadBidPdf ==
  /\ UNCHANGED <<incVars, routeVars, latVars, callVars>>
  /\ ~bid_pdf_out.called
  /\ LET out == bid_pdf(dl_resp) IN
       bid_pdf_out' = [called |-> TRUE, ok |-> out.ok, raised |-> out.raised,
                       dest |-> out.dest, diag |-> NoFile]
  /\ UNCHANGED <<dl_resp, dl_out>>

DlIdle == /\ dl_resp = [raises |-> TRUE, status |-> 200, ctype |-> "",
                        body |-> <<>>, cut |-> NoCut]
          /\ dl_out = NotCalled
          /\ bid_pdf_out = NotCalled

(***************************************************************************)
(* bid_doc_url on one listing record                                       *)
(***************************************************************************)
IdValues == {NoneV, Absent, ListV(<<>>), IntV(7), IntV(12),
             ListV(<<IntV(7)>>), StrV(<<" ", "[", "7", "]", " ">>),
             StrV(<<"a", "b">>)}
TypeValues == {Absent, NoneV, IntV(0), IntV(1), IntV(2), IntV(5), IntV(6),
               StrV(<<"5">>), StrV(<<"2">>), ListV(<<IntV(5)>>)}
EvalValues == {Absent, NoneV, IntV(0 - 1), IntV(0), IntV(1), IntV(2),
               StrV(<<>>), StrV(<<"1">>), ListV(<<>>), ListV(<<IntV(1)>>)}
RouteDocs == [b_id : IdValues, b_bid_type : TypeValues,
              b_eval_type : EvalValues]

NoRoute == [called |-> FALSE, raises |-> FALSE, url |-> NoUrl]

BidDocUrl ==
  /\ UNCHANGED <<incVars, dlVars, latVars, callVars>>
  /\ ~rt_out.called
  /\ LET out == bid_doc_url(rt_doc) IN
       rt_out' = [called |-> TRUE, raises |-> out.raises, url |-> out.url]
  /\ UNCHANGED rt_doc

RouteIdle ==
  /\ rt_doc = [b_id |-> NoneV, b_bid_type |-> NoneV, b_eval_type |-> NoneV]
  /\ rt_out = NoRoute

(***************************************************************************)
(* One call of a function                                                  *)
(***************************************************************************)
NoCall == [fn |-> "none"]
NoRet == [done |-> FALSE]
CallIdle == call = NoCall /\ ret = NoRet
Returned(fn) == call.fn = fn /\ ret.done

(***************************************************************************)
(* gem_latest.py: normalize_id and normalize_ms on one value               *)
(***************************************************************************)
MaxId == 12

\* the integers a b_id is drawn from, and what surrounds its decimal string
IdInts == (0 - MaxId)..MaxId
Prefixes == {<<>>, <<" ">>, <<"[">>, <<" ", "[">>, <<"[", " ">>}
Suffixes == {<<>>, <<" ">>, <<"]">>, <<"]", " ">>, <<" ", "]">>}

\* normalize_id on the three shapes of n, on None and on []
NormalizeId ==
  /\ UNCHANGED <<incVars, routeVars, dlVars, latVars>>
  /\ call.fn = "normalize_id"
  /\ ~ret.done
  /\ ret' = [done |-> TRUE,
             of_int |-> normalize_id(IntV(call.n)),
             of_list |-> normalize_id(ListV(<<IntV(call.n)>>)),
             of_str |-> normalize_id(StrV(call.pre \o Str(call.n)
                                            \o call.post)),
             of_none |-> normalize_id(NoneV),
             of_empty |-> normalize_id(ListV(<<>>))]
  /\ UNCHANGED call

\* int(s) of a str: [ok |-> no ValueError, value]; surrounding whitespace is
\* stripped, then an optional sign and decimal digits are read
RECURSIVE NatVal(_)
NatVal(ds) ==
  IF ds = <<>> THEN 0
  ELSE 10 * NatVal(SubSeq(ds, 1, Len(ds) - 1))
         + (CHOOSE d \in 0..9 : DigitChars[d + 1] = ds[Len(ds)])
int_of_str(s) ==
  LET t == Strip(s, Whitespace)
      signed == t # <<>> /\ Head(t) \in {"-", "+"}
      ds == IF signed THEN Tail(t) ELSE t
  IN IF ds # <<>> /\ \A i \in 1..Len(ds) : ds[i] \in Digits
       THEN [ok |-> TRUE,
             value |-> IF signed /\ Head(t) = "-" THEN 0 - NatVal(ds)
                       ELSE NatVal(ds)]
       ELSE [ok |-> FALSE, value |-> 0]

\* int(x) of a value: TypeError for None and for a list
int_of(v) ==
  CASE v.tag = "int" -> [ok |-> TRUE, value |-> v.int]
    [] v.tag = "str" -> int_of_str(v.str)
    [] OTHER -> [ok |-> FALSE, value |-> 0]

\* normalize_ms (floats are not modelled): every int() is inside a try
normalize_ms(value) ==
  CASE value.tag = "none" -> 0
    [] value.tag = "int" -> value.int
    [] value.tag = "list" ->
         IF value.items = <<>> THEN 0
         ELSE IF int_of(value.items[1]).ok
           THEN int_of(value.items[1]).value ELSE 0
    [] OTHER -> IF int_of(value).ok THEN int_of(value).value ELSE 0

\* the values normalize_ms is called with
MsChars == {"7", "-", " ", "x"}
MsScalars ==
  {NoneV} \cup {IntV(n) : n \in (0 - 1)..2}
  \cup {StrV(t) : t \in UNION {[1..n -> MsChars] : n \in 0..2}}
MsValues ==
  MsScalars \cup {ListV(<<>>), ListV(<<ListV(<<>>)>>)}
  \cup {ListV(<<v>>) : v \in MsScalars}
  \cup {ListV(<<ListV(<<v>>)>>) : v \in MsScalars}
  \cup {ListV(<<v, IntV(2)>>) : v \in MsScalars}

NormalizeMs ==
  /\ UNCHANGED <<incVars, routeVars, dlVars, latVars>>
  /\ call.fn = "normalize_ms"
  /\ ~ret.done
  /\ ret' = [done |-> TRUE, out |-> normalize_ms(call.value)]
  /\ UNCHANGED call

(***************************************************************************)
(* gem_incremental.py: matches_keyword                                     *)
(***************************************************************************)
MaxText == 3

TextChars == {"a", "b", "B", " "}
Texts == UNION {[1..n -> TextChars] : n \in 0..MaxText}

\* str.lower
lower_char(c) == IF c = "B" THEN "b" ELSE c
str_lower(s) == [i \in 1..Len(s) |-> lower_char(s[i])]

\* needle in hay
is_in(needle, hay) ==
  \E i \in 0..Len(hay) :
    /\ i + Len(needle) <= Len(hay)
    /\ SubSeq(hay, i + 1, i + Len(needle)) = needle

\* str.split(): the maximal runs of non-whitespace characters
RECURSIVE split(_)
split(s) ==
  IF s = <<>> THEN <<>>
  ELSE IF Head(s) \in Whitespace THEN split(Tail(s))
  ELSE LET n == CHOOSE k \in 1..Len(s) :
                  /\ \A i \in 1..k : s[i] \notin Whitespace
                  /\ k = Len(s) \/ s[k + 1] \in Whitespace
       IN <<SubSeq(s, 1, n)>> \o split(SubSeq(s, n + 1, Len(s)))

\* matches_keyword; keyword is None or a str
matches_keyword(text, keyword, mode) ==
  IF ~Truthy(keyword) THEN TRUE
  ELSE LET hay == str_lower(text)
           needle == str_lower(keyword.str)
       IN IF mode = "exact" THEN is_in(needle, hay)
          ELSE \A i \in 1..Len(split(needle)) : is_in(split(needle)[i], hay)

MatchesKeyword ==
  /\ UNCHANGED <<incVars, routeVars, dlVars, latVars>>
  /\ call.fn = "matches_keyword"
  /\ ~ret.done
  /\ ret' = [done |-> TRUE,
             out |-> matches_keyword(call.text, call.keyword, call.mode)]
  /\ UNCHANGED call

(***************************************************************************)
(* gem_latest.py: looks_like_pdf, resolve_pdf_url                          *)
(***************************************************************************)
MaxLinks == 2

\* the directory named by patterns 2 and 3 and the one named by pattern 4
DD_LOWER == "bidding/bid/documentdownload"
DD_MIXED == "bidding/bid/documentDownload"
\* re.I on these directories
lower_dir(d) == IF d = DD_MIXED THEN DD_LOWER ELSE d

\* A quoted string of the landing page, as far as the four patterns tell
\* strings apart: attr = "href" when it is the value of an href attribute,
\* rooted with dir when it starts with "/<dir>/", then name, then ".pdf" (in
\* any case) when pdf.
Links ==
  {[attr |-> "href", rooted |-> FALSE, dir |-> "", name |-> "a", pdf |-> TRUE],
   [attr |-> "href", rooted |-> FALSE, dir |-> "", name |-> "b", pdf |-> FALSE],
   [attr |-> "href", rooted |-> TRUE, dir |-> DD_LOWER, name |-> "9",
    pdf |-> TRUE],
   [attr |-> "str", rooted |-> TRUE, dir |-> DD_LOWER, name |-> "8",
    pdf |-> TRUE],
   [attr |-> "str", rooted |-> TRUE, dir |-> DD_LOWER, name |-> "7",
    pdf |-> FALSE],
   [attr |-> "str", rooted |-> TRUE, dir |-> DD_MIXED, name |-> "6",
    pdf |-> FALSE]}

\* the four patterns of lines 291-305, all searched with re.I
pattern_matches(k, l) ==
  CASE k = 1 -> l.attr = "href" /\ l.pdf
    [] k = 2 -> l.rooted /\ lower_dir(l.dir) = lower_dir(DD_LOWER) /\ l.pdf
    [] k = 3 -> l.rooted /\ lower_dir(l.dir) = lower_dir(DD_LOWER)
    [] k = 4 -> l.rooted /\ lower_dir(l.dir) = lower_dir(DD_MIXED)
Patterns == 1..4

\* re.search(pattern k, html): the position of the first match, 0 for None
re_search(k, links) ==
  LET hits == {i \in 1..Len(links) : pattern_matches(k, links[i])}
  IN IF hits = {} THEN 0 ELSE CHOOSE i \in hits : \A j \in hits : i <= j

matching(links) == {k \in Patterns : re_search(k, links) # 0}

\* a slip of lines 291-307: the searches in the opposite order
last_pattern(links) ==
  IF matching(links) = {} THEN 0
  ELSE CHOOSE k \in matching(links) : \A j \in matching(links) : j <= k

\* lines 291-307: the pattern whose match is returned, 0 when none matches
first_pattern(links) ==
  IF matching(links) = {} THEN 0
  ELSE CHOOSE k \in matching(links) : \A j \in matching(links) : k <= j

\* urljoin(doc_url, m.group(1))
link_file(l) == IF l.pdf THEN <<l.name, ".pdf">> ELSE <<l.name>>
urljoin(doc_url, l) ==
  IF l.rooted THEN [base |-> doc_url.base, lbl |-> l.dir, id |-> link_file(l)]
  ELSE [doc_url EXCEPT !.id = link_file(l)]

\* The answer to the request for the landing URL: session.get raises, or
\* status, Content-Type, the first bytes of the body and the quoted strings
\* of the body in page order
LandingBodies == {<<>>, <<"<">>, Magic, Take(Magic, 4) \o <<"<">>}
LinkPages == UNION {[1..n -> Links] : n \in 0..MaxLinks}
LandingRaises == [raises |-> TRUE, status |-> 200, ctype |-> "",
                  body |-> <<>>, links |-> <<>>]
LandingResponses ==
  {LandingRaises}
  \cup [raises : {FALSE}, status : {200, 404}, ctype : ContentTypes,
        body : LandingBodies, links : LinkPages]

\* a slip of lines 251-257: the declared type only
looks_like_pdf_by_type(resp) == has_pdf(lower(resp.ctype))

\* looks_like_pdf
looks_like_pdf(resp) ==
  has_pdf(lower(resp.ctype)) \/ Take(resp.body, 5) = Magic

\* resolve_pdf_url (lines 282-313): at is the return statement reached
\* ("raised": an exception of lines 282-283 leaves the function), pdf_url
\* the first element of the result (NoUrl for None), debug whether
\* docpage_no_pdf_link.html was written, debug_text what was written
NoText == [body |-> <<>>, links |-> <<>>]
resolve_pdf_url(doc_url, r) ==
  IF r.raises \/ raise_for_status(r.status)
    THEN [raises |-> TRUE, at |-> "raised", pdf_url |-> NoUrl,
          debug |-> FALSE, debug_text |-> NoText]
  ELSE IF looks_like_pdf(r)
    THEN [raises |-> FALSE, at |-> "direct", pdf_url |-> doc_url,
          debug |-> FALSE, debug_text |-> NoText]
  ELSE IF first_pattern(r.links) # 0
    THEN [raises |-> FALSE, at |-> "extracted",
          pdf_url |-> urljoin(doc_url,
                        r.links[re_search(first_pattern(r.links), r.links)]),
          debug |-> FALSE, debug_text |-> NoText]
  ELSE [raises |-> FALSE, at |-> "unresolved", pdf_url |-> NoUrl,
        debug |-> TRUE,
        debug_text |-> [body |-> r.body, links |-> r.links]]

LandingUrl == Url("showbidDocument", <<"7">>)

ResolvePdfUrl ==
  /\ UNCHANGED <<incVars, routeVars, dlVars, latVars>>
  /\ call.fn = "resolve_pdf_url"
  /\ ~ret.done
  /\ ret' = [done |-> TRUE, out |-> resolve_pdf_url(call.doc_url, call.r)]
  /\ UNCHANGED call

(***************************************************************************)
(* gem_latest.py: main                                                     *)
(***************************************************************************)
\* the portal has at most MaxDocs records for one run
MaxDocs == 2

\* max_pages = max(1, args.pages)
lat_max_pages == IF MaxPages >= 1 THEN MaxPages ELSE 1

\* The /all-bids page: what stands in the inline script assignment
\* csrf_bd_gem_nk': '...' and in the hidden field name="csrf_bd_gem_nk"
\* value="..." ("": the form is not on the page). Both patterns of
\* extract_csrf match 16 to 64 hex digits only.
ValidTokens == {"0123456789abcdef", "FEDCBA9876543210"}
InlineTexts == {"", "12ab", "0123456789abcdef"}
HiddenTexts == {"", "12ab", "FEDCBA9876543210"}
Htmls == [inline : InlineTexts, hidden : HiddenTexts]

\* a slip of line 100: no token found, an empty token returned
extract_csrf_lenient(html) ==
  IF html.inline \in ValidTokens
    THEN [raises |-> FALSE, token |-> html.inline]
  ELSE IF html.hidden \in ValidTokens
    THEN [raises |-> FALSE, token |-> html.hidden]
  ELSE [raises |-> FALSE, token |-> ""]

\* extract_csrf
extract_csrf(html) ==
  IF html.inline \in ValidTokens
    THEN [raises |-> FALSE, token |-> html.inline]
  ELSE IF html.hidden \in ValidTokens
    THEN [raises |-> FALSE, token |-> html.hidden]
  ELSE [raises |-> TRUE, token |-> ""]

\* The listing records main is served: b_id, b_bid_type, b_eval_type,
\* the normalized b_bid_number and the verdict of contains_state(d, state)
LatDocs ==
  [b_id : {IntV(1), IntV(2), NoneV}, b_bid_type : {Absent},
   b_eval_type : {Absent}, bid_no : {"GEM/B/1"}, in_state : BOOLEAN]
  \cup {[b_id |-> IntV(1), b_bid_type |-> IntV(2),
         b_eval_type |-> StrV(<<"1">>), bid_no |-> "GEM/B/1",
         in_state |-> TRUE]}

\* Outcomes of fetch_docs (lines 232-239): session.post raises, the status
\* makes raise_for_status raise, or the docs of the page
DocsOutcomes ==
  {[kind |-> k, docs |-> <<>>] : k \in {"exception", "status"}}
  \cup [kind : {"ok"}, docs : UNION {[1..n -> LatDocs] : n \in 0..MaxDocs}]

\* pdf_dir / f"{base}.pdf", base = safe_filename(f"{bid_no}_{b_id}")
PdfPath(bid_no, b_id) == [bid_no |-> bid_no, b_id |-> b_id]
NoPath == [bid_no |-> "", b_id |-> <<>>]

\* What main's landing URLs are answered with: the request raises; a PDF;
\* an HTML page with a document-download link; an HTML page without a link
Landings ==
  {LandingRaises,
   [raises |-> FALSE, status |-> 200, ctype |-> "application/pdf",
    body |-> Magic, links |-> <<>>]}
  \cup {[raises |-> FALSE, status |-> 200, ctype |-> "text/html",
         body |-> <<"<">>, links |-> l] :
          l \in {<<>>, <<[attr |-> "str", rooted |-> TRUE, dir |-> DD_LOWER,
                          name |-> "7", pdf |-> FALSE]>>}}

\* the responses to the download request that main is served
LatResponses ==
  {[raises |-> FALSE, status |-> st, ctype |-> ct, body |-> b, cut |-> c] :
     st \in {200, 404}, ct \in {"text/html", "application/pdf"},
     b \in {Magic, <<"<">>}, c \in {NoCut, 0}}

\* main, lines 423-434: the /all-bids page and the token
LatStart ==
  /\ UNCHANGED <<incVars, routeVars, dlVars, callVars>>
  /\ lat_pc = "start"
  /\ \E dp \in BOOLEAN : download_pdf' = dp
  /\ \E get \in {"exception", "status", "ok"}, html \in Htmls :
       IF get # "ok"
         THEN /\ lat_pc' = "aborted"
              /\ lat_abort' = "all_bids"
              /\ html = [inline |-> "", hidden |-> ""]
              /\ UNCHANGED <<all_bids_html, csrf>>
         ELSE /\ all_bids_html' = html
              /\ IF extract_csrf(html).raises
                   THEN /\ lat_pc' = "aborted"
                        /\ lat_abort' = "csrf"
                        /\ UNCHANGED csrf
                   ELSE /\ csrf' = extract_csrf(html).token
                        /\ lat_pc' = "paging"
                        /\ UNCHANGED lat_abort
  /\ lat_page' = 1
  /\ results' = <<>>
  /\ scanned_total' = 0
  /\ UNCHANGED <<docs, out_file, pdf_files, html_files, debug_html, requests,
                 failed_at, lat_last, diag_log>>

\* main, lines 436-442: fetch_docs for the current page
FetchDocs ==
  /\ UNCHANGED <<incVars, routeVars, dlVars, callVars>>
  /\ lat_pc = "paging"
  /\ requests' = requests + 1
  /\ \E resp \in DocsOutcomes :
       /\ scanned_total + Len(resp.docs) <= MaxDocs
       /\ IF resp.kind = "exception"
            THEN /\ lat_pc' = "aborted"
                 /\ lat_abort' = "fetch_docs"
                 /\ UNCHANGED <<docs, failed_at, scanned_total>>
          ELSE IF resp.kind = "status"
            THEN /\ lat_pc' = "aborted"
                 /\ lat_abort' = "listing_status"
                 /\ failed_at' = requests + 1
                 /\ UNCHANGED <<docs, scanned_total>>
          ELSE IF resp.docs = <<>>
            THEN /\ lat_pc' = "write"
                 /\ failed_at' = requests + 1
                 /\ UNCHANGED <<docs, lat_abort, scanned_total>>
          ELSE /\ docs' = resp.docs
               /\ scanned_total' = scanned_total + Len(resp.docs)
               /\ lat_pc' = "docs"
               /\ UNCHANGED <<failed_at, lat_abort>>
  /\ UNCHANGED <<all_bids_html, csrf, download_pdf, lat_page, results,
                 out_file, pdf_files, html_files, debug_html, lat_last,
                 diag_log>>

\* main, lines 436 and 525: after the last doc of a page
NextPage ==
  IF Tail(docs) # <<>> THEN UNCHANGED <<lat_pc, lat_page>>
  ELSE IF lat_page + 1 > lat_max_pages
    THEN lat_pc' = "write" /\ UNCHANGED lat_page
  ELSE lat_pc' = "paging" /\ lat_page' = lat_page + 1

\* a slip of line 497: the download is attempted whatever was resolved
resolved_any(res) == ~res.raises

\* line 497, `if not pdf_url` (an exception of resolve_pdf_url goes to
\* line 516)
resolved(res) == ~res.raises /\ res.pdf_url # NoUrl

\* a slip of lines 511-513: the path is recorded whatever download_file said
stored_path_any(ok, out_pdf) == out_pdf

\* lines 511-513: item["pdf_path"]
stored_path(ok, out_pdf) == IF ok THEN out_pdf ELSE NoPath

NoVisit == [b_id |-> <<>>, at |-> "none", dl_called |-> FALSE,
            dl_ok |-> FALSE]
Visit(b_id, at, dl_called, dl_ok) ==
  [b_id |-> b_id, at |-> at, dl_called |-> dl_called, dl_ok |-> dl_ok]

\* main, lines 444-523: one record of the page
ProcessDoc ==
  /\ UNCHANGED <<incVars, routeVars, dlVars, callVars>>
  /\ lat_pc = "docs"
  /\ docs # <<>>
  /\ LET d == Head(docs)
         b_id == normalize_id(Get(d.b_id))
         route == bid_doc_url(d)
         doc_url == route.url
         item == [b_id |-> b_id, bid_number |-> d.bid_no,
                  doc_url |-> doc_url, pdf_url |-> NoUrl,
                  pdf_path |-> NoPath]
         out_pdf == PdfPath(d.bid_no, b_id)
     IN
       IF ~d.in_state
         THEN /\ docs' = Tail(docs)
              /\ NextPage
              /\ lat_last' = Visit(b_id, "filtered", FALSE, FALSE)
              /\ UNCHANGED <<results, pdf_files, html_files, debug_html,
                             lat_abort, diag_log>>
       ELSE IF route.raises
         THEN /\ lat_pc' = "aborted"
              /\ lat_abort' = "bid_doc_url"
              /\ lat_last' = Visit(b_id, "type_error", FALSE, FALSE)
              /\ UNCHANGED <<docs, lat_page, results, pdf_files, html_files,
                             debug_html, diag_log>>
       ELSE IF ~(download_pdf /\ doc_url # NoUrl)
         THEN /\ results' = Append(results, item)
              /\ docs' = Tail(docs)
              /\ NextPage
              /\ lat_last' = Visit(b_id, "listed", FALSE, FALSE)
              /\ UNCHANGED <<pdf_files, html_files, debug_html, lat_abort,
                             diag_log>>
       ELSE \E landing \in Landings :
         LET res == resolve_pdf_url(doc_url, landing) IN
           /\ debug_html' = IF res.debug THEN b_id ELSE debug_html
           /\ IF ~resolved(res)
                THEN /\ results' = Append(results, item)
                     /\ lat_last' = Visit(b_id, res.at, FALSE, FALSE)
                     /\ diag_log' =
                          IF res.debug
                            THEN diag_log
                                   \cup {[b_id |-> b_id, by |-> "resolve"]}
                            ELSE diag_log
                     /\ UNCHANGED <<pdf_files, html_files>>
                ELSE \E r \in LatResponses :
                  LET dl == download_file(r) IN
                    /\ pdf_files' = IF dl.dest.exists
                                      THEN pdf_files \cup {out_pdf}
                                      ELSE pdf_files
                    /\ html_files' = IF dl.diag.exists
                                       THEN html_files \cup {out_pdf}
                                       ELSE html_files
                    /\ diag_log' =
                         (IF res.debug
                            THEN diag_log
                                   \cup {[b_id |-> b_id, by |-> "resolve"]}
                            ELSE diag_log)
                         \cup (IF dl.diag.exists
                                 THEN {[b_id |-> b_id, by |-> "download"]}
                                 ELSE {})
                    /\ lat_last' = Visit(b_id, res.at, TRUE, dl.ok)
                    /\ results' = Append(results,
                         [item EXCEPT !.pdf_url = res.pdf_url,
                                      !.pdf_path = stored_path(dl.ok,
                                                               out_pdf)])
           /\ docs' = Tail(docs)
           /\ NextPage
           /\ UNCHANGED lat_abort
  /\ UNCHANGED <<all_bids_html, csrf, download_pdf, out_file, scanned_total,
                 requests, failed_at>>

\* main, lines 527-531: the manifest
WriteManifest ==
  /\ UNCHANGED <<incVars, routeVars, dlVars, callVars>>
  /\ lat_pc = "write"
  /\ out_file' = [writes |-> out_file.writes + 1, items |-> results]
  /\ lat_pc' = "done"
  /\ UNCHANGED <<all_bids_html, csrf, download_pdf, lat_page, docs, results,
                 pdf_files, html_files, debug_html, scanned_total, requests,
                 failed_at, lat_abort, lat_last, diag_log>>

LatInit ==
  /\ lat_pc = "start"
  /\ all_bids_html = [inline |-> "", hidden |-> ""]
  /\ csrf = ""
  /\ download_pdf = FALSE
  /\ lat_page = 1
  /\ docs = <<>>
  /\ results = <<>>
  /\ out_file = [writes |-> 0, items |-> <<>>]
  /\ pdf_files = {}
  /\ html_files = {}
  /\ debug_html = <<>>
  /\ scanned_total = 0
  /\ requests = 0
  /\ failed_at = 0
  /\ lat_abort = "none"
  /\ lat_last = NoVisit
  /\ diag_log = {}

LatNext == LatStart \/ FetchDocs \/ ProcessDoc \/ WriteManifest

(***************************************************************************)
(* Specifications                                                          *)
(***************************************************************************)
\* gem_incremental: repeated runs against a portal that answers arbitrarily
Init == /\ IncInit /\ upstream = FreePortal
        /\ RouteIdle /\ DlIdle /\ LatInit /\ CallIdle

Next == IncNext

Spec == Init /\ [][Next]_vars

\* gem_incremental: repeated runs against a portal that does not change
InitRepeat == /\ IncInit /\ upstream \in PinnedPortals
              /\ RouteIdle /\ DlIdle /\ LatInit /\ CallIdle

SpecRepeat == InitRepeat /\ [][Next]_vars

\* gem_latest: one run
InitLatest == /\ IncInit /\ upstream = FreePortal
              /\ RouteIdle /\ DlIdle /\ LatInit /\ CallIdle

NextLatest == LatNext

SpecLatest == InitLatest /\ [][NextLatest]_vars

\* download_file and download_bid_pdf on every response
InitDownload == /\ IncInit /\ upstream = FreePortal
                /\ RouteIdle /\ LatInit /\ CallIdle
                /\ dl_resp \in Responses
                /\ dl_out = NotCalled
                /\ bid_pdf_out = NotCalled

NextDownload == DownloadFile \/ DownloadBidPdf

SpecDownload == InitDownload /\ [][NextDownload]_vars

\* resolve_pdf_url on every landing response
InitResolve == /\ IncInit /\ upstream = FreePortal
               /\ RouteIdle /\ DlIdle /\ LatInit
               /\ call \in [fn : {"resolve_pdf_url"}, doc_url : {LandingUrl},
                            r : LandingResponses]
               /\ ret = NoRet

NextResolve == ResolvePdfUrl

SpecResolve == InitResolve /\ [][NextResolve]_vars

\* matches_keyword on every text, keyword and mode
InitKeyword == /\ IncInit /\ upstream = FreePortal
               /\ RouteIdle /\ DlIdle /\ LatInit
               /\ call \in [fn : {"matches_keyword"}, text : Texts,
                            keyword : {NoneV} \cup {StrV(k) : k \in Texts},
                            mode : {"contains", "exact"}]
               /\ ret = NoRet

NextKeyword == MatchesKeyword

SpecKeyword == InitKeyword /\ [][NextKeyword]_vars

\* normalize_id on the shapes of an integer
InitNormalizeId == /\ IncInit /\ upstream = FreePortal
                   /\ RouteIdle /\ DlIdle /\ LatInit
                   /\ call \in [fn : {"normalize_id"}, n : IdInts,
                                pre : Prefixes, post : Suffixes]
                   /\ ret = NoRet

NextNormalizeId == NormalizeId

SpecNormalizeId == InitNormalizeId /\ [][NextNormalizeId]_vars

\* normalize_ms on every value
InitNormalizeMs == /\ IncInit /\ upstream = FreePortal
                   /\ RouteIdle /\ DlIdle /\ LatInit
                   /\ call \in [fn : {"normalize_ms"}, value : MsValues]
                   /\ ret = NoRet

NextNormalizeMs == NormalizeMs

SpecNormalizeMs == InitNormalizeMs /\ [][NextNormalizeMs]_vars

\* bid_doc_url on every record
InitRoute == /\ IncInit /\ upstream = FreePortal
             /\ DlIdle /\ LatInit /\ CallIdle
             /\ rt_doc \in RouteDocs
             /\ rt_out = NoRoute

NextRoute == BidDocUrl

SpecRoute == InitRoute /\ [][NextRoute]_vars

(***************************************************************************)
(* Properties of gem_incremental.main                                      *)
(***************************************************************************)
seen_at_start == Range(state0.seen_bid_ids)

\* C1: in every run, a bid is downloaded or added to seen_ids only if the
\* page served for it has a start strictly above the watermark loaded at run
\* start and its id was not in the seen_ids loaded at run start; and the
\* watermark moves only to the start of such a page.
C1_OnlyEligibleProcessed ==
  /\ dl_run \subseteq elig
  /\ (seen_ids \ seen_at_start) \subseteq elig
  /\ \A b \in elig : b \notin seen_at_start
  /\ (newest_epoch # None /\ newest_epoch # last_seen_epoch) =>
        /\ elig # {}
        /\ newest_epoch > last_seen_epoch
        /\ newest_epoch <= max_passed
        /\ inc_pc # "aborted" => newest_epoch = max_passed

\* a second run that downloads a new bid past bids it has already seen
C1_Witness ==
  /\ inc_pc = "saved"
  /\ seen_at_start # {}
  /\ dl_run # {}
  /\ seen_ids \ seen_at_start # {}
  /\ newest_epoch > last_seen_epoch

\* C2: over repeated runs against the same persisted state, completed or
\* aborted, download_bid_pdf is called at most once for a bid: no bid is
\* downloaded in the current run that was downloaded in an earlier one (and
\* dict.fromkeys visits a bid once per run).
C2_AtMostOnce == dl_run \cap dl_before = {}

\* C3: after a completed run the persisted last_seen_epoch is the maximum
\* of its pre-run value and the starts of the bids that passed all filters
\* in the run, and the persisted value never decreases.
C3_WatermarkIsMax ==
  /\ inc_pc = "saved" =>
       /\ stateFile.exists
       /\ stateFile.last_seen_epoch = IF max_passed > last_seen_epoch
                                        THEN max_passed ELSE last_seen_epoch
       /\ state0.exists => last_seen_epoch = state0.last_seen_epoch
  /\ state0.exists =>
       /\ stateFile.exists
       /\ stateFile.last_seen_epoch >= state0.last_seen_epoch

\* a completed run over at least two passing bids that raised the watermark
C3_Witness ==
  /\ inc_pc = "saved"
  /\ state0.exists
  /\ Cardinality(dl_run) >= 2
  /\ stateFile.last_seen_epoch > state0.last_seen_epoch

\* C4: a run that follows a completed run against an unchanged portal
\* downloads nothing and leaves STATE_FILE as the first run wrote it.
C4_SecondRunIdle ==
  prev_done =>
    /\ dl_run = {}
    /\ inc_pc = "saved" => stateFile = state0

\* the second of two completed runs, with bids seen in the first and bids
\* that are listed but were skipped in both
C4_Witness ==
  /\ inc_pc = "saved"
  /\ prev_done
  /\ seen_ids # {}
  /\ (UNION Range(upstream.pages)) \ seen_ids # {}

\* C5: an exception raised while a bid is fetched or downloaded never leaves
\* the run: a run is never aborted in its bid loop.
C5_BidFailureAbsorbed == inc_pc = "aborted" => abort_at = "paging"

(***************************************************************************)
(* Properties of gem_latest.main                                           *)
(***************************************************************************)
\* C6: when a listing request is answered with a non-success status or with
\* an empty record set, that request is the last listing request of the run
\* and the run still completes: it goes on to write the manifest.
C6_PageFailureCompletes ==
  failed_at > 0 =>
    /\ requests = failed_at
    /\ lat_pc \in {"write", "done"}

no_token == /\ all_bids_html.inline \notin ValidTokens
            /\ all_bids_html.hidden \notin ValidTokens
page_loaded == lat_pc # "start" /\ lat_abort # "all_bids"

\* C7: when the loaded /all-bids page carries a token in neither the inline
\* nor the hidden-field form, extract_csrf raises and the run is over with
\* no listing request issued, no document resolved or downloaded and no
\* manifest written; when it carries one, the run goes on with that token,
\* the inline one first.
C7_NoTokenIsFatal ==
  page_loaded =>
    /\ no_token =>
         /\ lat_pc = "aborted" /\ lat_abort = "csrf"
         /\ requests = 0
         /\ results = <<>>
         /\ pdf_files = {} /\ html_files = {} /\ debug_html = <<>>
         /\ out_file.writes = 0
    /\ ~no_token =>
         /\ lat_abort # "csrf"
         /\ csrf = IF all_bids_html.inline \in ValidTokens
                     THEN all_bids_html.inline ELSE all_bids_html.hidden

C7_Witness ==
  /\ lat_pc = "aborted" /\ lat_abort = "csrf"
  /\ all_bids_html = [inline |-> "12ab", hidden |-> ""]

(***************************************************************************)
(* Properties of download_file                                             *)
(***************************************************************************)
delivered ==
  /\ dl_out.called
  /\ ~dl_resp.raises /\ dl_resp.cut = NoCut
  /\ ~raise_for_status(dl_resp.status)

\* C8: whatever the Content-Type header says, download_file returns True
\* and writes the destination only for a body whose first five bytes are
\* "%PDF-"; any other delivered body gives False, a diagnostic file and no
\* destination file.
C8_MagicWhateverType ==
  delivered =>
    IF Take(dl_resp.body, 5) = Magic
      THEN dl_out.ok /\ dl_out.dest.exists
      ELSE ~dl_out.ok /\ ~dl_out.dest.exists /\ dl_out.diag.exists

\* C9: for a delivered response with a success status and a Content-Type
\* without "pdf", download_file returns True exactly when the first five
\* body bytes are "%PDF-". If they are not, the diagnostic path holds the
\* body (what one read of 5 and one read of DebugReadMax bytes return) and
\* the destination is not created; if they are, the destination holds the
\* five bytes followed by the rest of the body and no diagnostic is written.
C9_NonPdfTypeVerified ==
  (delivered /\ ~has_pdf(lower(dl_resp.ctype))) =>
    /\ dl_out.ok <=> (Take(dl_resp.body, 5) = Magic)
    /\ ~dl_out.ok =>
         /\ dl_out.diag = File(Take(dl_resp.body, 5 + DebugReadMax))
         /\ dl_out.dest = NoFile
    /\ dl_out.ok =>
         /\ Take(dl_out.dest.data, 5) = Magic
         /\ dl_out.dest = File(dl_resp.body)
         /\ dl_out.diag = NoFile

C9_Witness ==
  /\ delivered /\ dl_out.ok
  /\ dl_resp.ctype = "application/octet-stream"
  /\ Len(dl_resp.body) > 5
  /\ dl_out.dest = File(dl_resp.body)

(***************************************************************************)
(* Properties of bid_doc_url                                               *)
(***************************************************************************)
RouteSegments == {"showbidDocument", "showdirectradocumentPdf",
                  "showradocumentPdf", "list-ra-schedules"}

\* C10: for a record whose identifier normalizes to a non-empty string (and
\* whose codes let line 190 compare), bid_doc_url is the direct route for
\* b_bid_type 5; for b_bid_type 2 the RA document route when b_eval_type is
\* 0, absent or null and the RA schedules route when b_eval_type > 0; the
\* default route for every other b_bid_type whatever b_eval_type is; always
\* the route segment followed by the normalized identifier.
C10_RoutingTable ==
  LET id == normalize_id(Get(rt_doc.b_id))
      t == rt_doc.b_bid_type
      e == rt_doc.b_eval_type
  IN (rt_out.called /\ ~rt_out.raises /\ id # <<>>) =>
       /\ rt_out.url.base = BASE_URL
       /\ rt_out.url.id = id
       /\ rt_out.url.lbl \in RouteSegments
       /\ t = IntV(5) => rt_out.url.lbl = "showdirectradocumentPdf"
       /\ (t = IntV(2) /\ e \in {IntV(0), Absent, NoneV}) =>
            rt_out.url.lbl = "showradocumentPdf"
       /\ (t = IntV(2) /\ e.tag = "int" /\ e.int > 0) =>
            rt_out.url.lbl = "list-ra-schedules"
       /\ t \notin {IntV(2), IntV(5)} => rt_out.url.lbl = "showbidDocument"

C10_Witness ==
  /\ rt_out.called /\ ~rt_out.raises
  /\ rt_doc.b_id = StrV(<<" ", "[", "7", "]", " ">>)
  /\ rt_doc.b_bid_type = IntV(2)
  /\ rt_doc.b_eval_type = IntV(1)
  /\ rt_out.url = Url("list-ra-schedules", <<"7">>)

(***************************************************************************)
(* Properties of resolve_pdf_url                                           *)
(***************************************************************************)
\* the landing URL was fetched: the request did not raise and the status
\* does not make raise_for_status raise
landing_fetched ==
  /\ Returned("resolve_pdf_url")
  /\ ~call.r.raises /\ call.r.status < 400
declared_pdf == call.r.ctype \in {"application/pdf", "Application/PDF"}
starts_with_magic ==
  /\ Len(call.r.body) >= 5
  /\ \A i \in 1..5 : call.r.body[i] = Magic[i]

\* C11: for a fetched landing URL resolve_pdf_url ends in exactly one of
\* ResolvedDirect (the landing URL returned, no diagnostic),
\* ResolvedViaExtraction (a link returned, no diagnostic) and Unresolved (no
\* URL, diagnostic written); in ResolvedDirect exactly when the declared
\* content type contains "pdf" or the first five bytes are "%PDF-".
C11_ResolverTerminal ==
  landing_fetched =>
    /\ ~ret.out.raises
    /\ ret.out.at \in {"direct", "extracted", "unresolved"}
    /\ ret.out.at = "direct" <=> (declared_pdf \/ starts_with_magic)
    /\ ret.out.at = "direct" =>
         ret.out.pdf_url = call.doc_url /\ ~ret.out.debug
    /\ ret.out.at = "extracted" =>
         ret.out.pdf_url # NoUrl /\ ~ret.out.debug
    /\ ret.out.at = "unresolved" =>
         ret.out.pdf_url = NoUrl /\ ret.out.debug

C11_Witness ==
  /\ landing_fetched
  /\ call.r.ctype = "application/octet-stream"
  /\ call.r.body = Magic
  /\ call.r.links # <<>>
  /\ ret.out.at = "direct"
  /\ ret.out.pdf_url = LandingUrl

no_match(k) == \A i \in 1..Len(call.r.links) :
                 ~pattern_matches(k, call.r.links[i])
first_match(k) ==
  call.r.links[CHOOSE i \in 1..Len(call.r.links) :
                 /\ pattern_matches(k, call.r.links[i])
                 /\ \A j \in 1..(i - 1) : ~pattern_matches(k, call.r.links[j])]

\* C12: when the fetched landing response is not a PDF, the result is the
\* first match of the lowest-numbered of the four patterns that has a match
\* in the body, joined to the landing URL; so a pattern's link is returned
\* only if no earlier pattern has a match. With no match at all the
\* resolver is Unresolved.
C12_OrderedCascade ==
  (landing_fetched /\ ~(declared_pdf \/ starts_with_magic)) =>
    /\ \A k \in Patterns :
         (~no_match(k) /\ \A j \in 1..(k - 1) : no_match(j)) =>
           /\ ret.out.at = "extracted"
           /\ ret.out.pdf_url = urljoin(call.doc_url, first_match(k))
    /\ (\A k \in Patterns : no_match(k)) => ret.out.at = "unresolved"

C12_Witness ==
  /\ landing_fetched
  /\ call.r.ctype = "text/html" /\ call.r.body = <<"<">>
  /\ Len(call.r.links) = 2
  /\ call.r.links[1].attr = "str" /\ call.r.links[1].dir = DD_MIXED
  /\ call.r.links[2].attr = "href" /\ ~call.r.links[2].rooted
  /\ call.r.links[2].pdf
  /\ ret.out.pdf_url = Url("showbidDocument", <<"a", ".pdf">>)

(***************************************************************************)
(* Properties of gem_latest.main: the bids of a run                        *)
(***************************************************************************)
\* a step of main that visits the record Head(docs)
visits == lat_pc = "docs" /\ docs # <<>> /\ latVars' # latVars

\* C13: when no pattern matches for a bid, the diagnostic is written and no
\* URL returned; main then does not call download_file for that bid, writes
\* no file for it, appends its entry with empty pdf_url and pdf_path, and
\* goes on with the next record (or page, or the manifest): the run is not
\* aborted.
C13_UnresolvedIsPerBid ==
  [][(visits /\ lat_last'.at = "unresolved") =>
       /\ ~lat_last'.dl_called
       /\ debug_html' = lat_last'.b_id
       /\ [b_id |-> lat_last'.b_id, by |-> "resolve"] \in diag_log'
       /\ pdf_files' = pdf_files /\ html_files' = html_files
       /\ results' = Append(results,
            [b_id |-> normalize_id(Get(Head(docs).b_id)),
             bid_number |-> Head(docs).bid_no,
             doc_url |-> bid_doc_url(Head(docs)).url,
             pdf_url |-> NoUrl, pdf_path |-> NoPath])
       /\ docs' = Tail(docs)
       /\ lat_pc' \in {"docs", "paging", "write"}
       /\ lat_abort' = "none"]_vars

C13_Witness ==
  /\ lat_pc = "done"
  /\ Len(out_file.items) = 2
  /\ out_file.items[1].b_id # out_file.items[2].b_id
  /\ [b_id |-> out_file.items[1].b_id, by |-> "resolve"] \in diag_log
  /\ out_file.items[1].doc_url # NoUrl
  /\ out_file.items[1].pdf_url = NoUrl
  /\ out_file.items[1].pdf_path = NoPath
  /\ out_file.items[2].pdf_path # NoPath

\* C14: every entry of the written manifest has a b_id that is a non-empty
\* string of decimal digits (a record whose b_id normalizes to "" has been
\* dropped).
C14_ManifestIdsAreDigits ==
  \A i \in 1..Len(out_file.items) :
    /\ out_file.items[i].b_id # <<>>
    /\ \A j \in 1..Len(out_file.items[i].b_id) :
         out_file.items[i].b_id[j] \in Digits

\* C18: every diagnostic written in the run is still on disk under a path of
\* its own bid: the resolve diagnostic holds the page of that bid, the
\* download diagnostic of that bid exists.
C18_DiagnosticsKept ==
  \A e \in diag_log :
    IF e.by = "resolve" THEN debug_html = e.b_id
    ELSE \E f \in html_files : f.b_id = e.b_id

\* C19: results only grows, by one entry appended per visited record that
\* passed the state filter, in listing order, and no entry changes; an
\* entry has a pdf_path only if download_file was called for that bid and
\* returned True, and then it has a pdf_url; the manifest is written at most
\* once, after the page loop, with results as they are then, and a run that
\* reaches its end has written it once.
C19_ManifestShape ==
  /\ [](/\ out_file.writes <= 1
        /\ lat_pc = "done" <=> out_file.writes = 1
        /\ out_file.writes = 1 =>
             out_file.items = results /\ docs = <<>>
        /\ \A i \in 1..Len(results) :
             results[i].pdf_path # NoPath =>
               /\ results[i].pdf_url # NoUrl
               /\ results[i].pdf_path \in pdf_files)
  /\ [][\/ results' = results
        \/ /\ visits /\ Head(docs).in_state
           /\ Len(results') = Len(results) + 1
           /\ SubSeq(results', 1, Len(results)) = results
           /\ results'[Len(results')].b_id
                = normalize_id(Get(Head(docs).b_id))
           /\ results'[Len(results')].pdf_path # NoPath =>
                lat_last'.dl_called /\ lat_last'.dl_ok]_vars
  /\ [][(visits /\ docs' = Tail(docs)) =>
          (Head(docs).in_state <=> results' # results)]_vars
  /\ [][out_file' # out_file =>
          lat_pc = "write" /\ lat_pc' = "done"]_vars

C19_Witness ==
  /\ lat_pc = "done" /\ out_file.writes = 1
  /\ Len(out_file.items) = 2
  /\ out_file.items[1].pdf_path # NoPath
  /\ out_file.items[2].pdf_url # NoUrl
  /\ out_file.items[2].pdf_path = NoPath
  /\ lat_last.dl_called /\ ~lat_last.dl_ok

(***************************************************************************)
(* Properties of matches_keyword                                           *)
(***************************************************************************)
\* the whole keyword occurs in the text, letter case aside
whole_keyword_in_text ==
  \E i \in 0..Len(call.text) :
    /\ i + Len(call.keyword.str) <= Len(call.text)
    /\ \A j \in 1..Len(call.keyword.str) :
         lower_char(call.text[i + j]) = lower_char(call.keyword.str[j])
\* every whitespace-separated token of the keyword occurs in the text
every_token_in_text ==
  \A t \in Range(split(call.keyword.str)) :
    \E i \in 0..Len(call.text) :
      /\ i + Len(t) <= Len(call.text)
      /\ \A j \in 1..Len(t) : lower_char(call.text[i + j]) = lower_char(t[j])

\* C15: with a non-empty keyword, matches_keyword in mode "contains" is true
\* exactly when the whole keyword is a case-insensitive substring of the
\* text, in mode "exact" exactly when every whitespace-separated token of
\* the keyword is one; with an absent keyword it is true in both modes.
C15_KeywordModes ==
  Returned("matches_keyword") =>
    IF call.keyword = NoneV THEN ret.out
    ELSE call.keyword.str # <<>> =>
           /\ call.mode = "contains" => (ret.out <=> whole_keyword_in_text)
           /\ call.mode = "exact" => (ret.out <=> every_token_in_text)

(***************************************************************************)
(* Properties of normalize_id and normalize_ms                             *)
(***************************************************************************)
\* C16: for every integer n, normalize_id of n, of [n] and of n's decimal
\* string inside whitespace and brackets are the same value, n's decimal
\* string; normalize_id(None) and normalize_id([]) are the empty string.
C16_ShapeIndependent ==
  Returned("normalize_id") =>
    /\ ret.of_int = Str(call.n)
    /\ ret.of_list = ret.of_int
    /\ ret.of_str = ret.of_int
    /\ ret.of_none = <<>>
    /\ ret.of_empty = <<>>

\* C17: for None, an int, a list or a str normalize_ms returns an integer
\* that is not negative: the int itself, 0 for None and for [], the integer
\* parse of a str or 0 when it does not parse, and for a non-empty list
\* what normalize_ms gives for its first element, at any depth.
C17_NormalizeMsTable ==
  LET RECURSIVE documented(_)
      documented(v) ==
        CASE v.tag = "none" -> 0
          [] v.tag = "int" -> v.int
          [] v.tag = "str" -> IF int_of_str(v.str).ok
                                THEN int_of_str(v.str).value ELSE 0
          [] v.tag = "list" -> IF v.items = <<>> THEN 0
                               ELSE documented(v.items[1])
  IN Returned("normalize_ms") =>
       /\ ret.out >= 0
       /\ ret.out = documented(call.value)

(***************************************************************************)
(* Properties of gem_incremental.main: skipped bids                        *)
(***************************************************************************)
\* C20: when a run has saved its state, every listed bid whose page has a
\* start above the watermark the run loaded and which the run did not add
\* to seen_ids is still eligible: the saved watermark is strictly below its
\* start.
C20_SkippedBidStaysEligible ==
  inc_pc = "saved" =>
    \A b \in UNION Range(upstream.pages) :
      (/\ upstream.view[b].kind = "ok"
       /\ upstream.view[b].start # None
       /\ upstream.view[b].start > last_seen_epoch
       /\ b \notin seen_ids) =>
        stateFile.last_seen_epoch < upstream.view[b].start

(***************************************************************************)
(* Properties of gem_incremental.main: failed downloads and aborted runs   *)
(***************************************************************************)
\* the bid loop step in which download_bid_pdf was called and returned
download_returned == dl_run' # dl_run /\ inc_pc' = "loop"

\* C21: when download_bid_pdf returns for a bid that passed all filters,
\* True or False, the bid is added to seen_ids and its start is folded into
\* newest_epoch; and a bid whose download returned False in a run that
\* completed is never passed to download_bid_pdf in a later run.
C21_FailedDownloadIsFinal ==
  /\ [](dl_false_done \cap dl_run = {})
  /\ [][download_returned =>
          /\ Head(todo) \in seen_ids'
          /\ newest_epoch' = Max(last_seen_epoch, max_passed')]_vars

\* a later run has completed whose listing held a bid whose download had
\* returned False in an earlier completed run; the bid has no file
C21_Witness ==
  /\ inc_pc = "saved"
  /\ \E b \in dl_false_done \cap listed :
       /\ b \notin files
       /\ b \notin dl_run
       /\ b \in Range(stateFile.seen_bid_ids)

\* C22: STATE_FILE is written by the final save_state only, and when a run
\* is ended by an exception raised in the pagination or in the bid loop
\* STATE_FILE is what it was when the run started.
C22_AbortKeepsState ==
  /\ [](abort_at # "none" => stateFile = state0)
  /\ [][stateFile' # stateFile =>
          /\ inc_pc = "loop" /\ todo = <<>> /\ inc_pc' = "saved"
          /\ stateFile' = save_state(seen_ids, newest_epoch)]_vars

\* a first run was ended by an exception in the bid loop after it had
\* downloaded a file and marked the bid seen; STATE_FILE was not written
C22_Witness ==
  /\ inc_pc = "aborted"
  /\ abort_at \in {"view", "download"}
  /\ dl_before = {}
  /\ files # {}
  /\ files \subseteq seen_ids
  /\ stateFile = state0
  /\ ~stateFile.exists

====
